---- MODULE Spec2Model ----
(***************************************************************************)
(* Model of src/main.py, the Streamlit dashboard over moviesTratado.csv.   *)
(* The script is re-executed top to bottom on every interaction; the only  *)
(* state that survives a re-execution is the st.cache_data memo of         *)
(* load_data and the selectbox value held by the session.                  *)
(*                                                                         *)
(* A table (DataFrame) is a sequence of rows; a row is a record with one   *)
(* field per column plus idx, the pandas index label.  Cells are tagged    *)
(* records: kind "nan" is a missing value (NaN / NaT).                     *)
(***************************************************************************)
EXTENDS Integers, Sequences, FiniteSets, TLC

\* ------------------------------------------------------------- bounds
MaxMovies == 3
MaxRuns == 3

\* company_counts keeps .head(10)
TopN == 10

\* ------------------------------------------------------- cell values
NaN == [kind |-> "nan"]
StrCell(s) == [kind |-> "str", str |-> s]
NumCell(n) == [kind |-> "num", num |-> n]

\* pd.notna(x) on a scalar cell
notna(x) == x.kind # "nan"

\* object column holding serialized list text, or the parsed list
TextCell(toks) == [kind |-> "str", toks |-> toks, items |-> <<>>]
NaNList == [kind |-> "nan", toks |-> <<>>, items |-> <<>>]
ListCell(items) == [kind |-> "list", toks |-> <<>>, items |-> items]

\* *_name column: a list of names before explode, a scalar after
NamesCell(names) == [kind |-> "list", str |-> "", names |-> names]
NameScalar(s) == [kind |-> "str", str |-> s, names |-> <<>>]
NaNName == [kind |-> "nan", str |-> "", names |-> <<>>]

\* release_date column: text <<y, m, d>>, then Timestamp or NaT
DateText(ymd) == [kind |-> "str", ymd |-> ymd]
NaNDate == [kind |-> "nan", ymd |-> <<>>]
Timestamp(ymd) == [kind |-> "ts", ymd |-> ymd]

\* ------------------------------------------------- the CSV file on disk
\* Serialized list-of-dicts text, as its literal tokens.
Obj(id, name) == <<"{", "id", id, "name", name, "}">>
Lit1(a) == <<"[">> \o a \o <<"]">>
Lit2(a, b) == <<"[">> \o a \o b \o <<"]">>

gAction == Obj("28", "Action")
gComedy == Obj("35", "Comedy")
gaction == Obj("99", "action")
cWarner == Obj("6194", "Warner")
cUniversal == Obj("33", "Universal")

\* CSV records the dataset is drawn from; an empty field is "" / <<>>.
CsvPool ==
  { [title |-> "A", budget |-> <<0>>, release_date |-> <<2000, 5, 1>>,
     genres |-> Lit2(gAction, gComedy),
     production_companies |-> Lit2(cWarner, cUniversal)],
    [title |-> "B", budget |-> <<1>>, release_date |-> <<2000, 7, 15>>,
     genres |-> Lit1(gAction), production_companies |-> Lit1(cWarner)],
    [title |-> "C", budget |-> <<>>, release_date |-> <<2001, 1, 1>>,
     genres |-> <<>>, production_companies |-> <<>>],
    [title |-> "", budget |-> <<1>>, release_date |-> <<2001, 3, 1>>,
     genres |-> Lit1(gComedy), production_companies |-> Lit1(cUniversal)],
    [title |-> "E", budget |-> <<0>>, release_date |-> <<>>,
     genres |-> Lit1(gaction), production_companies |-> Lit1(cWarner)],
    [title |-> "F", budget |-> <<1>>, release_date |-> <<2001, 13, 1>>,
     genres |-> <<"[", "]">>,
     production_companies |-> <<"[">> \o cWarner],
    [title |-> "G", budget |-> <<0>>, release_date |-> <<2000, 1, 1>>,
     genres |-> <<"[", "{", "id", "28", "}", "]">>,
     production_companies |-> <<>>] }

Files == UNION { [1..n -> CsvPool] : n \in 0..MaxMovies }

\* Python's str ordering of the names that occur (upper case sorts first).
Collation == <<"Action", "Comedy", "Universal", "Warner", "action">>
Rank(s) == CHOOSE i \in 1..Len(Collation) : Collation[i] = s

\* ------------------------------------------------------------ helpers
RECURSIVE Concat(_)
Concat(ss) == IF ss = <<>> THEN <<>> ELSE Head(ss) \o Concat(Tail(ss))

Range(s) == { s[i] : i \in 1..Len(s) }

\* ---------------------------------------------------------- load_data
\* pd.read_csv: empty fields become NaN, the index is a RangeIndex.
read_csv(file) ==
  [i \in 1..Len(file) |->
    [idx |-> i,
     title |-> IF file[i].title = "" THEN NaN ELSE StrCell(file[i].title),
     budget |-> IF file[i].budget = <<>> THEN NaN
                ELSE NumCell(file[i].budget[1]),
     release_date |-> IF file[i].release_date = <<>> THEN NaNDate
                      ELSE DateText(file[i].release_date),
     genres |-> IF file[i].genres = <<>> THEN NaNList
                ELSE TextCell(file[i].genres),
     production_companies |->
        IF file[i].production_companies = <<>> THEN NaNList
        ELSE TextCell(file[i].production_companies)]]

\* ------------------------------------------------ ast.literal_eval
\* A dict is its sequence of <<key, value>> pairs.
ParseError == [ok |-> FALSE, items |-> <<>>, rest |-> <<>>]

RECURSIVE parse_pairs(_, _)
parse_pairs(toks, acc) ==
  IF toks = <<>> THEN ParseError
  ELSE IF Head(toks) = "}" THEN [ok |-> TRUE, items |-> acc, rest |-> Tail(toks)]
  ELSE IF Len(toks) >= 2 /\ {toks[1], toks[2]} \cap {"[", "]", "{", "}"} = {}
       THEN parse_pairs(SubSeq(toks, 3, Len(toks)), Append(acc, <<toks[1], toks[2]>>))
  ELSE ParseError

RECURSIVE parse_objs(_, _)
parse_objs(toks, acc) ==
  IF toks = <<>> THEN ParseError
  ELSE IF Head(toks) = "]"
       THEN IF Tail(toks) = <<>> THEN [ok |-> TRUE, items |-> acc, rest |-> <<>>]
            ELSE ParseError
  ELSE IF Head(toks) = "{"
       THEN LET d == parse_pairs(Tail(toks), <<>>)
            IN IF d.ok THEN parse_objs(d.rest, Append(acc, d.items)) ELSE ParseError
  ELSE ParseError

literal_eval(toks) ==
  IF toks # <<>> /\ Head(toks) = "[" THEN parse_objs(Tail(toks), <<>>)
  ELSE ParseError

\* parse_cell without its else branch: a missing cell is passed through
parse_cell_no_default(x) ==
  IF x.kind = "str" /\ x.toks # <<>>
  THEN IF literal_eval(x.toks).ok
       THEN [ok |-> TRUE, cell |-> ListCell(literal_eval(x.toks).items)]
       ELSE [ok |-> FALSE, cell |-> x]
  ELSE [ok |-> TRUE, cell |-> x]

\* lambda x: ast.literal_eval(x) if pd.notna(x) and x != "" else []
\* (lines 25 and 133-135); literal_eval rejects what is not a string.
parse_cell(x) ==
  IF x.kind = "nan" \/ (x.kind = "str" /\ x.toks = <<>>)
  THEN [ok |-> TRUE, cell |-> ListCell(<<>>)]
  ELSE IF x.kind = "str" /\ literal_eval(x.toks).ok
  THEN [ok |-> TRUE, cell |-> ListCell(literal_eval(x.toks).items)]
  ELSE [ok |-> FALSE, cell |-> x]

\* d["name"]
has_name(d) == \E i \in 1..Len(d) : d[i][1] = "name"
get_name(d) == d[CHOOSE i \in 1..Len(d) :
                   d[i][1] = "name" /\ \A j \in (i+1)..Len(d) : d[j][1] # "name"][2]

\* lambda x: [d["name"] for d in x]  (lines 26 and 136)
names_of(cell) ==
  IF \A i \in 1..Len(cell.items) : has_name(cell.items[i])
  THEN [ok |-> TRUE,
        cell |-> NamesCell([i \in 1..Len(cell.items) |-> get_name(cell.items[i])])]
  ELSE [ok |-> FALSE, cell |-> NamesCell(<<>>)]

\* df[src] = df[src].apply(parse); df[dst] = df[src].apply(names), written
\* into the table itself.  line and line2 are the lines of the two
\* statements; the result carries the line that raised (0 when none) and
\* the table as the statements executed so far left it.
normalize_column(tbl, src, dst, line, line2) ==
  IF \E i \in 1..Len(tbl) : ~parse_cell(tbl[i][src]).ok
  THEN [raised |-> line, tbl |-> tbl]
  ELSE LET parsed == [i \in 1..Len(tbl) |->
                        [tbl[i] EXCEPT ![src] = parse_cell(tbl[i][src]).cell]]
       IN IF \E i \in 1..Len(tbl) : ~names_of(parsed[i][src]).ok
          THEN [raised |-> line2, tbl |-> parsed]
          ELSE [raised |-> 0,
                tbl |-> [i \in 1..Len(tbl) |->
                          (dst :> names_of(parsed[i][src]).cell) @@ parsed[i]]]

\* ------------------------------------------------------ DataFrame.explode
explode_row(r, col) ==
  IF r[col].names = <<>> THEN << [r EXCEPT ![col] = NaNName] >>
  ELSE [k \in 1..Len(r[col].names) |->
          [r EXCEPT ![col] = NameScalar(r[col].names[k])]]

explode(tbl, col) == Concat([i \in 1..Len(tbl) |-> explode_row(tbl[i], col)])

\* sorted(df_exploded_genres["genre_name"].dropna().unique())  (line 29)
RECURSIVE sorted(_)
sorted(S) ==
  IF S = {} THEN <<>>
  ELSE LET m == CHOOSE x \in S : \A y \in S : Rank(x) <= Rank(y)
       IN <<m>> \o sorted(S \ {m})

genre_candidates(tbl) ==
  sorted({ tbl[i].genre_name.str : i \in { j \in 1..Len(tbl) : notna(tbl[j].genre_name) } })

\* genre_mask comparing case-insensitively
casefold(s) == IF s = "action" THEN "Action" ELSE s
genre_mask_casefold(r, selected) ==
  r.genre_name.kind = "str" /\ casefold(r.genre_name.str) = casefold(selected)

\* lines 32-35: the boolean-mask selection, or a copy of the whole table
genre_mask(r, selected) == r.genre_name.kind = "str" /\ r.genre_name.str = selected

genre_filter(tbl, selected) ==
  IF selected # "Todos" THEN SelectSeq(tbl, LAMBDA r : genre_mask(r, selected))
  ELSE tbl

\* ------------------------------------------------------------ metrics
RECURSIVE budget_sum(_)
budget_sum(tbl) ==
  IF tbl = <<>> THEN 0
  ELSE (IF notna(Head(tbl).budget) THEN Head(tbl).budget.num ELSE 0)
       + budget_sum(Tail(tbl))

\* lines 42-43
general_metrics(tbl) == [total |-> Len(tbl), budget |-> budget_sum(tbl)]

\* ------------------------------------------------------ movies per year
days_in_month(y, m) ==
  IF m \in {4, 6, 9, 11} THEN 30
  ELSE IF m = 2 THEN (IF y % 4 = 0 /\ (y % 100 # 0 \/ y % 400 = 0) THEN 29 ELSE 28)
  ELSE 31

\* pd.to_datetime(..., errors="coerce") on one cell
to_datetime(x) ==
  IF x.kind = "ts" THEN x
  ELSE IF x.kind = "str" /\ Len(x.ymd) = 3 /\ x.ymd[2] \in 1..12
          /\ x.ymd[3] \in 1..days_in_month(x.ymd[1], x.ymd[2])
  THEN Timestamp(x.ymd)
  ELSE NaNDate

\* .dt.year
dt_year(x) == IF x.kind = "ts" THEN NumCell(x.ymd[1]) ELSE NaN

\* lines 49-50, written into the active table itself
with_release_year(tbl) ==
  [i \in 1..Len(tbl) |->
     ("release_year" :> dt_year(to_datetime(tbl[i].release_date)))
     @@ [tbl[i] EXCEPT !.release_date = to_datetime(tbl[i].release_date)]]

\* line 51
dropna_year(tbl) == SelectSeq(tbl, LAMBDA r : notna(r.release_year))

RECURSIVE ascending(_)
ascending(S) ==
  IF S = {} THEN <<>>
  ELSE LET m == CHOOSE x \in S : \A y \in S : x <= y
       IN <<m>> \o ascending(S \ {m})

\* Series.count() of the title column within one group: non-null cells
title_count(tbl, y) ==
  Cardinality({ i \in 1..Len(tbl) : tbl[i].release_year.num = y /\ notna(tbl[i].title) })

\* lines 53-59
per_year(tbl) ==
  LET years == ascending({ tbl[i].release_year.num : i \in 1..Len(tbl) })
  IN [k \in 1..Len(years) |->
        [release_year |-> years[k], count |-> title_count(tbl, years[k])]]

\* idxmax returning the last occurrence of the maximum
idxmax_last(hist) ==
  CHOOSE k \in 1..Len(hist) :
    /\ \A j \in 1..Len(hist) : hist[j].count <= hist[k].count
    /\ \A j \in (k+1)..Len(hist) : hist[j].count < hist[k].count

\* Series.idxmax(): the label of the first occurrence of the maximum
\* (the histogram is not empty)
idxmax(hist) ==
  CHOOSE k \in 1..Len(hist) :
    /\ \A j \in 1..Len(hist) : hist[j].count <= hist[k].count
    /\ \A j \in 1..(k-1) : hist[j].count < hist[k].count

\* lines 61-62 and 68: [raised, year, marker]; idxmax of an empty Series
\* raises ValueError
peak_year(hist) ==
  IF hist = <<>> THEN [raised |-> 61, year |-> 0, marker |-> 0]
  ELSE LET y == hist[idxmax(hist)].release_year
       IN [raised |-> 0, year |-> y,
           marker |-> CHOOSE k \in 1..Len(hist) :
                        /\ hist[k].release_year = y
                        /\ \A j \in 1..(k-1) : hist[j].release_year # y]

\* ------------------------------------------------------- top companies
RECURSIVE unique(_)
unique(s) ==
  IF s = <<>> THEN <<>>
  ELSE LET u == unique(SubSeq(s, 1, Len(s) - 1))
       IN IF s[Len(s)] \in Range(u) THEN u ELSE Append(u, s[Len(s)])

occurrences(s, x) == Cardinality({ i \in 1..Len(s) : s[i] = x })

\* descending by count, equal counts in order of first appearance
RECURSIVE sort_desc(_)
sort_desc(cs) ==
  IF cs = <<>> THEN <<>>
  ELSE LET k == CHOOSE i \in 1..Len(cs) :
                  /\ \A j \in 1..Len(cs) : cs[j].count <= cs[i].count
                  /\ \A j \in 1..(i-1) : cs[j].count < cs[i].count
       IN <<cs[k]>> \o sort_desc(SubSeq(cs, 1, k-1) \o SubSeq(cs, k+1, Len(cs)))

head(s, n) == SubSeq(s, 1, IF Len(s) < n THEN Len(s) ELSE n)

\* lines 137-138: df.explode("company_name")["company_name"].value_counts().head(10)
value_counts_top(tbl) ==
  LET ex == explode(tbl, "company_name")
      present == SelectSeq(ex, LAMBDA r : notna(r.company_name))
      names == [i \in 1..Len(present) |-> present[i].company_name.str]
      u == unique(names)
  IN head(sort_desc([i \in 1..Len(u) |->
                       [name |-> u[i], count |-> occurrences(names, u[i])]]), TopN)

\* ---------------------------------------------------- st.cache_data
NoMemo == [hit |-> FALSE, value |-> <<>>]

\* load_data without the st.cache_data decorator
cache_hit_never(memo) == FALSE

\* whether the call load_data() is answered from the memo (line 16)
cache_hit(memo) == memo.hit

\* a memo that hands out the memoized object itself (as st.cache_resource)
memo_shared(memo, written) == [memo EXCEPT !.value = written]

\* st.cache_data hands every caller its own copy of the memoized value, so
\* writing columns into the returned table leaves the memo as it was
memo_after_write(memo, written) == memo

\* ------------------------------------------------------------- state
VARIABLES
  file,                  \* moviesTratado.csv
  cache,                 \* memo of load_data
  reads,                 \* number of pd.read_csv calls
  widget,                \* the selectbox value the session holds
  runs,                  \* script executions started
  pc,                    \* position of the running script
  raised,                \* line of the uncaught exception, 0 when none
  loaded,                \* the table load_data returned (df, lines 20-27)
  df_exploded_genres,    \* line 27
  all_genres,            \* line 29
  selected_genre,        \* line 30
  df,                    \* the active table (df from line 33/35 on)
  metrics,               \* lines 42-43
  df_year,               \* line 51
  movies_per_year,       \* lines 53-59
  year_with_most_movies, \* line 62
  marker,                \* line 68
  company_counts,        \* line 138
  history,               \* finished runs: {[selection, outcome]}
  previous               \* selection of the run before this one

session == <<file, cache, reads, widget, runs, history, previous>>
script == <<loaded, df_exploded_genres, all_genres, selected_genre, df, metrics,
            df_year, movies_per_year, year_with_most_movies, marker,
            company_counts>>
vars == <<session, script, pc, raised>>

NoMetrics == [total |-> 0, budget |-> 0]

\* the script's namespace before line 20
Fresh ==
  /\ pc = "load"
  /\ raised = 0
  /\ loaded = <<>>
  /\ df_exploded_genres = <<>>
  /\ all_genres = <<>>
  /\ selected_genre = ""
  /\ df = <<>>
  /\ metrics = NoMetrics
  /\ df_year = <<>>
  /\ movies_per_year = <<>>
  /\ year_with_most_movies = 0
  /\ marker = 0
  /\ company_counts = <<>>

Init ==
  /\ file \in Files
  /\ cache = NoMemo
  /\ reads = 0
  /\ widget = "Todos"
  /\ runs = 1
  /\ history = {}
  /\ previous = ""
  /\ Fresh

\* what a finished run showed
Outcome ==
  [raised |-> raised, all_genres |-> all_genres, df |-> df, metrics |-> metrics,
   movies_per_year |-> movies_per_year,
   year_with_most_movies |-> year_with_most_movies, marker |-> marker,
   company_counts |-> company_counts]

Finished == pc \in {"done", "raised"}

\* line 20: df = load_data()
LoadData ==
  /\ pc = "load"
  /\ IF cache_hit(cache)
     THEN /\ loaded' = cache.value
          /\ UNCHANGED <<cache, reads>>
     ELSE /\ reads' = reads + 1
          /\ cache' = [hit |-> TRUE, value |-> read_csv(file)]
          /\ loaded' = read_csv(file)
  /\ pc' = "genres"
  /\ UNCHANGED <<file, widget, runs, history, previous, raised,
                 df_exploded_genres, all_genres, selected_genre, df, metrics,
                 df_year, movies_per_year, year_with_most_movies, marker,
                 company_counts>>

\* lines 25-26
NormalizeGenres ==
  /\ pc = "genres"
  /\ LET n == normalize_column(loaded, "genres", "genre_name", 25, 26)
     IN /\ loaded' = n.tbl
        /\ cache' = memo_after_write(cache, n.tbl)
        /\ raised' = n.raised
        /\ pc' = IF n.raised = 0 THEN "explode" ELSE "raised"
  /\ UNCHANGED <<file, reads, widget, runs, history, previous,
                 df_exploded_genres, all_genres, selected_genre, df, metrics,
                 df_year, movies_per_year, year_with_most_movies, marker,
                 company_counts>>

\* lines 27-30: the selectbox returns the session's value when it is one of
\* the options, else the first option
ExplodeGenres ==
  /\ pc = "explode"
  /\ df_exploded_genres' = explode(loaded, "genre_name")
  /\ all_genres' = genre_candidates(df_exploded_genres')
  /\ selected_genre' = IF widget \in Range(all_genres') THEN widget ELSE "Todos"
  /\ pc' = "filter"
  /\ UNCHANGED <<session, raised, loaded, df, metrics, df_year, movies_per_year,
                 year_with_most_movies, marker, company_counts>>

\* lines 32-35
GenreFilter ==
  /\ pc = "filter"
  /\ df' = genre_filter(df_exploded_genres, selected_genre)
  /\ pc' = "metrics"
  /\ UNCHANGED <<session, raised, loaded, df_exploded_genres, all_genres,
                 selected_genre, metrics, df_year, movies_per_year,
                 year_with_most_movies, marker, company_counts>>

\* lines 42-43
GeneralMetrics ==
  /\ pc = "metrics"
  /\ metrics' = general_metrics(df)
  /\ pc' = "year"
  /\ UNCHANGED <<session, raised, loaded, df_exploded_genres, all_genres,
                 selected_genre, df, df_year, movies_per_year,
                 year_with_most_movies, marker, company_counts>>

\* lines 49-51
ReleaseYear ==
  /\ pc = "year"
  /\ df' = with_release_year(df)
  /\ df_year' = dropna_year(df')
  /\ pc' = "peryear"
  /\ UNCHANGED <<session, raised, loaded, df_exploded_genres, all_genres,
                 selected_genre, metrics, movies_per_year,
                 year_with_most_movies, marker, company_counts>>

\* lines 53-70
MoviesPerYear ==
  /\ pc = "peryear"
  /\ movies_per_year' = per_year(df_year)
  /\ LET p == peak_year(movies_per_year')
     IN /\ year_with_most_movies' = p.year
        /\ marker' = p.marker
        /\ raised' = p.raised
        /\ pc' = IF p.raised = 0 THEN "companies" ELSE "raised"
  /\ UNCHANGED <<session, loaded, df_exploded_genres, all_genres,
                 selected_genre, df, metrics, df_year, company_counts>>

\* lines 133-138
TopCompanies ==
  /\ pc = "companies"
  /\ LET n == normalize_column(df, "production_companies", "company_name", 133, 136)
     IN /\ df' = n.tbl
        /\ raised' = n.raised
        /\ company_counts' = IF n.raised = 0 THEN value_counts_top(n.tbl) ELSE <<>>
        /\ pc' = IF n.raised = 0 THEN "done" ELSE "raised"
  /\ UNCHANGED <<session, loaded, df_exploded_genres, all_genres,
                 selected_genre, metrics, df_year, movies_per_year,
                 year_with_most_movies, marker>>

\* the options the selectbox rendered in this run (none before line 30)
Options ==
  IF pc = "raised" /\ raised < 30 THEN {widget}
  ELSE {"Todos"} \cup Range(all_genres)

\* the user picks g in the sidebar (or reruns): the script starts over
Rerun(g) ==
  /\ Finished
  /\ runs < MaxRuns
  /\ runs' = runs + 1
  /\ widget' = g
  /\ previous' = widget
  /\ history' = history \cup {[selection |-> widget, outcome |-> Outcome]}
  /\ pc' = "load"
  /\ raised' = 0
  /\ loaded' = <<>>
  /\ df_exploded_genres' = <<>>
  /\ all_genres' = <<>>
  /\ selected_genre' = ""
  /\ df' = <<>>
  /\ metrics' = NoMetrics
  /\ df_year' = <<>>
  /\ movies_per_year' = <<>>
  /\ year_with_most_movies' = 0
  /\ marker' = 0
  /\ company_counts' = <<>>
  /\ UNCHANGED <<file, cache, reads>>

Next ==
  \/ LoadData
  \/ NormalizeGenres
  \/ ExplodeGenres
  \/ GenreFilter
  \/ GeneralMetrics
  \/ ReleaseYear
  \/ MoviesPerYear
  \/ TopCompanies
  \/ \E g \in Options : Rerun(g)

Spec == Init /\ [][Next]_vars

\* ================================================================ claims
\* positions of the script at which a value has been computed
MetricsShown ==
  pc \in {"year", "peryear", "companies", "done"} \/ (pc = "raised" /\ raised > 43)
HistogramBuilt == pc \in {"companies", "done"} \/ (pc = "raised" /\ raised > 59)
PeakFound == pc \in {"companies", "done"} \/ (pc = "raised" /\ raised > 62)

\* the movies (index labels of the loaded dataset) with a row in tbl
MoviesOf(tbl) == { tbl[i].idx : i \in 1..Len(tbl) }

\* C1: with no genre filter ("Todos") the "Total de Filmes" metric equals the
\* number of movie records of the dataset, a movie with several genres
\* counting once.
C1_TotalIsMovieCount ==
  (MetricsShown /\ selected_genre = "Todos") => metrics.total = Len(file)

\* C2: the table that is company-expanded has not been multiplied by genre:
\* the count shown for a company is the number of (movie, company entry)
\* pairs of the active movies carrying that company's name.
CompanyEntries(m) ==
  parse_cell(read_csv(file)[m].production_companies).cell.items

CompanyPairs(c) ==
  UNION { { <<m, k>> : k \in { n \in 1..Len(CompanyEntries(m)) :
                                get_name(CompanyEntries(m)[n]) = c } } :
          m \in MoviesOf(df) }

C2_CompanyCountNotMultiplied ==
  pc = "done" =>
    \A i \in 1..Len(company_counts) :
      company_counts[i].count = Cardinality(CompanyPairs(company_counts[i].name))

\* C3: when the table fed to an aggregator has no rows (no active row has a
\* release year), the run completes instead of raising.
C3_NoRaiseOnEmptyInput ==
  ~(pc = "raised" /\ raised \in 42..70 /\ df_year = <<>>)

\* C5: the counts of the per-year histogram sum to the number of active rows
\* whose release_date parses, with one entry per distinct year, ascending.
RECURSIVE SumCounts(_)
SumCounts(hist) == IF hist = <<>> THEN 0 ELSE Head(hist).count + SumCounts(Tail(hist))

C5_HistogramSumsToDatedRows ==
  HistogramBuilt =>
    /\ SumCounts(movies_per_year)
         = Cardinality({ i \in 1..Len(df) : df[i].release_date.kind = "ts" })
    /\ \A j \in 1..(Len(movies_per_year) - 1) :
         movies_per_year[j].release_year < movies_per_year[j+1].release_year
    /\ { movies_per_year[j].release_year : j \in 1..Len(movies_per_year) }
         = { df[i].release_date.ymd[1] :
               i \in { n \in 1..Len(df) : df[n].release_date.kind = "ts" } }

\* C4: with a genre g selected, the active table is exactly the rows of the
\* genre-expanded table whose genre_name is g: every active row has genre g
\* (none has another genre or a missing one), every expanded row of genre g is
\* active as often as it occurs, in the expanded table's order, which makes
\* one row per (movie, genre entry named g).
C4_FilterKeepsExactlySelectedGenre ==
  (pc = "metrics" /\ selected_genre # "Todos") =>
    /\ \A i \in 1..Len(df) :
         /\ df[i].genre_name = NameScalar(selected_genre)
         /\ df[i] \in Range(df_exploded_genres)
    /\ \A j \in 1..Len(df_exploded_genres) :
         df_exploded_genres[j].genre_name = NameScalar(selected_genre)
           => occurrences(df, df_exploded_genres[j])
                = occurrences(df_exploded_genres, df_exploded_genres[j])
    /\ \A i \in 1..(Len(df) - 1) : df[i].idx <= df[i+1].idx
    /\ \A m \in 1..Len(loaded) :
         Cardinality({ i \in 1..Len(df) : df[i].idx = m })
           = occurrences(loaded[m].genre_name.names, selected_genre)

\* C4 witness: "Action" selected over records with genres [Action, Comedy],
\* [Action] and none: two active rows, the Comedy row and the row without a
\* genre left out.
C4_Witness ==
  /\ pc = "metrics"
  /\ selected_genre = "Action"
  /\ Len(df) = 2
  /\ MoviesOf(df) = {1, 2}
  /\ \E j \in 1..Len(df_exploded_genres) :
       df_exploded_genres[j].genre_name = NameScalar("Comedy")
  /\ \E j \in 1..Len(df_exploded_genres) :
       df_exploded_genres[j].genre_name = NaNName

\* C6: the file is read at most once in the life of the process, and every
\* run starts from the same loaded records.
C6_LoadedAtMostOnce ==
  /\ reads <= 1
  /\ pc # "load" => cache = [hit |-> TRUE, value |-> read_csv(file)]
  /\ pc = "genres" => loaded = cache.value

\* C6 witness: a third run, started by a change of the filter, has loaded
\* its table and the file has been read once.
C6_Witness ==
  /\ runs >= 3
  /\ pc = "genres"
  /\ reads = 1
  /\ previous # widget
  /\ loaded # <<>>

\* C9: the peak year is the year of the first entry, in the histogram's
\* ascending order, whose count is the maximum.
C9_PeakIsFirstMaximum ==
  (PeakFound /\ movies_per_year # <<>>) =>
    \E k \in 1..Len(movies_per_year) :
      /\ movies_per_year[k].release_year = year_with_most_movies
      /\ marker = k
      /\ \A j \in 1..Len(movies_per_year) :
           movies_per_year[j].count <= movies_per_year[k].count
      /\ \A j \in 1..Len(movies_per_year) :
           movies_per_year[j].count = movies_per_year[k].count
             => movies_per_year[k].release_year <= movies_per_year[j].release_year

\* C9 witness: two years share the maximum count and the earlier is the peak.
C9_Witness ==
  /\ pc = "done"
  /\ Len(movies_per_year) = 2
  /\ movies_per_year[1].count = movies_per_year[2].count
  /\ movies_per_year[1].count > 0
  /\ year_with_most_movies = movies_per_year[1].release_year

\* C7 as stated: no stage writes into the table an earlier stage produced:
\* the genre normalizer leaves the loader's table as it was, and the year
\* derivation and the company normalizer leave the genre filter's table as
\* it was.
C7_NoStageWritesInPlace ==
  [][ /\ pc = "genres" => loaded' = loaded
      /\ pc \in {"year", "companies"} => df' = df ]_vars

\* C7 amended: the stages write their columns into the table they are given
\* (the per-run table the loader returned, the active table); what none of
\* them modifies is the memoized dataset in the loader's cache, the
\* genre-expanded table and, after the genre filter, the loader's table.
C7_MemoAndExpandedTableUntouched ==
  [][ /\ pc = "genres" => cache' = cache
      /\ pc \in {"year", "companies"} =>
           /\ cache' = cache
           /\ loaded' = loaded
           /\ df_exploded_genres' = df_exploded_genres ]_vars

\* C7 witness: a finished run in which the normalizer has written into the
\* loader's table and the later stages into the active table, with the memo
\* still holding the records as read and the expanded table none of the
\* columns added later.
C7_Witness ==
  /\ pc = "done"
  /\ df # <<>>
  /\ loaded # cache.value
  /\ cache.value = read_csv(file)
  /\ \A i \in 1..Len(df) : df[i] \notin Range(df_exploded_genres)
  /\ \A j \in 1..Len(df_exploded_genres) :
       "release_year" \notin DOMAIN df_exploded_genres[j]

\* C8: a run is a function of the dataset and the selection: a finished run
\* shows what every earlier finished run with the same selection showed, and
\* the genre candidates are those of every earlier run whatever it selected.
C8_RunIsFunctionOfSelection ==
  Finished =>
    \A h \in history :
      /\ h.selection = widget => h.outcome = Outcome
      /\ (h.outcome.raised = 0 \/ h.outcome.raised > 30) /\ (raised = 0 \/ raised > 30)
           => h.outcome.all_genres = all_genres

\* C8 witness: a selection is made again after a run that filtered by a
\* genre, and the run finishes.
C8_Witness ==
  /\ pc = "done"
  /\ runs >= 3
  /\ previous \notin {widget, "Todos"}
  /\ company_counts # <<>>
  /\ \E h \in history : h.selection = widget /\ h.outcome = Outcome

\* C10: once normalized, genres and production_companies hold a list and
\* genre_name / company_name hold the names found in the cell's text, in the
\* order of the text; a missing cell gives the empty list, and so does the
\* empty string.
RECURSIVE NamesInText(_)
NamesInText(toks) ==
  IF Len(toks) < 2 THEN <<>>
  ELSE IF Head(toks) = "name" THEN <<toks[2]>> \o NamesInText(Tail(Tail(toks)))
  ELSE NamesInText(Tail(toks))

Normalized(tbl, src, dst, text(_)) ==
  \A i \in 1..Len(tbl) :
    /\ tbl[i][src].kind = "list"
    /\ tbl[i][dst].kind = "list"
    /\ Len(tbl[i][dst].names) = Len(tbl[i][src].items)
    /\ tbl[i][dst].names = NamesInText(text(tbl[i].idx))
    /\ text(tbl[i].idx) = <<>> => tbl[i][src].items = <<>> /\ tbl[i][dst].names = <<>>

C10_NormalizedCellsAreLists ==
  /\ (pc \notin {"load", "genres", "raised"} \/ (pc = "raised" /\ raised > 26))
       => Normalized(loaded, "genres", "genre_name", LAMBDA m : file[m].genres)
  /\ pc = "done"
       => Normalized(df, "production_companies", "company_name",
                     LAMBDA m : file[m].production_companies)
  /\ parse_cell(TextCell(<<>>)) = [ok |-> TRUE, cell |-> ListCell(<<>>)]

\* C10 witness: a finished run over a record with two genres and two
\* companies and a record whose genres and companies cells are missing.
C10_Witness ==
  /\ pc = "done"
  /\ \E i \in 1..Len(df) :
       /\ Len(df[i].company_name.names) = 2
       /\ Len(loaded[df[i].idx].genre_name.names) = 2
  /\ \E i \in 1..Len(df) :
       /\ file[df[i].idx].genres = <<>>
       /\ file[df[i].idx].production_companies = <<>>
       /\ df[i].company_name.names = <<>>
       /\ loaded[df[i].idx].genre_name.names = <<>>

====
